---- MODULE Spec2Model ----
(***************************************************************************)
(* Model of the PATLITE signal-tower controller (app/patlite_controller.py)*)
(* : the PatliteController session (device handle, connected flag, cached  *)
(* LED bytes, lock), the 9-byte HID report it builds, and the hid.device   *)
(* handles it opens, writes to and closes.                                 *)
(*                                                                         *)
(* The 9-byte report data[0..8] of the source is the sequence              *)
(* <<data[0], ..., data[8]>>: byte i of the source is element i+1 here.    *)
(***************************************************************************)
EXTENDS Integers, Sequences, FiniteSets, TLC

VARIABLES
    device,             \* self.device: 0 for None, else the index of a hid.device object
    connected,          \* self.connected
    current_led_r_y,    \* self.current_led_r_y
    current_led_g_b,    \* self.current_led_g_b
    current_led_white,  \* self.current_led_white
    lock,               \* self.lock: 0 when free, else the thread holding it
    handles,            \* the hid.device objects created so far: "unopened", "open" or "closed"
    closeCalls,         \* close() calls made on each hid.device object
    pc,                 \* each caller thread's position: "idle", "wait", "body", "release"
    op,                 \* the operation each caller thread is in
    ev,                 \* what the operation body that ran last did (history)
    accLed,             \* LED bytes of the last write a device accepted (history)
    lastLed,            \* the last operation that assigned the cached LED bytes, the
                        \* LED bytes of the report it built, and the cache it found (history)
    lastBuzz,           \* <<mode, sound>> of the last report set_buzzer, stop_buzzer or
                        \* set_all passed to device.write (history, kept by SpecEnc)
    enc,                \* SpecEnc: the call whose arguments the run draws
    loop,               \* SpecHttp: where the event loop is in a hook or handler
    tasks,              \* SpecHttp: operations added as background tasks, not yet run
    called,             \* SpecHttp: the last connect()/disconnect() a handler made
                        \* (history)
    jobs,               \* SpecTasks: background tasks with their arguments, in the
                        \* order their requests were accepted
    accepted,           \* SpecTasks: number of write requests accepted so far
    wrote               \* SpecTasks: accept numbers of the last two tasks that
                        \* called device.write (history)

session == <<device, connected, current_led_r_y, current_led_g_b, current_led_white>>
hid == <<handles, closeCalls>>
threads == <<lock, pc, op>>
vars == <<device, connected, current_led_r_y, current_led_g_b, current_led_white,
          lock, handles, closeCalls, pc, op, ev, accLed, lastLed, lastBuzz, enc, loop, tasks, called, jobs, accepted, wrote>>
history == <<accLed, lastLed>>
web == <<loop, tasks, called>>
queue == <<jobs, accepted, wrote>>
aside == <<lastBuzz, enc, web, queue>>

----------------------------------------------------------------------------
(* Bounds *)

MaxHandles == 2     \* hid.device objects created in one run
NumThreads == 2     \* concurrent callers

----------------------------------------------------------------------------
(* Enumerations and constants of the source *)

PatliteColor == {"OFF", "RED", "GREEN", "BLUE", "YELLOW", "PURPLE", "CYAN", "WHITE"}
PatlitePattern == {"OFF", "ON", "BLINK", "FLASH"}
LED == {"RED", "YELLOW", "GREEN", "BLUE", "WHITE"}

BUZZER_MODE_CONTINUOUS == 0
BUZZER_MODE_COUNT_3 == 3
BUZZER_SOUND_OFF == 0
BUZZER_SOUND_D7 == 6

LED_RED == 16
LED_YELLOW == 1
LED_GREEN == 16
LED_BLUE == 1
LED_WHITE == 16
LED_OFF == 0

----------------------------------------------------------------------------
(* Pure helpers *)

\* Python's | on non-negative ints.
RECURSIVE BitOr(_, _)
BitOr(a, b) ==
    IF a = 0 /\ b = 0 THEN 0
    ELSE (IF a % 2 = 1 \/ b % 2 = 1 THEN 1 ELSE 0) + 2 * BitOr(a \div 2, b \div 2)

\* The if/elif chain with the PURPLE and CYAN branches exchanged.
ColorBytesSwapped(color) ==
    CASE color = "RED"    -> <<LED_RED, 0, 0>>
      [] color = "YELLOW" -> <<LED_YELLOW, 0, 0>>
      [] color = "GREEN"  -> <<0, LED_GREEN, 0>>
      [] color = "BLUE"   -> <<0, LED_BLUE, 0>>
      [] color = "PURPLE" -> <<0, LED_GREEN + LED_BLUE, 0>>
      [] color = "CYAN"   -> <<LED_RED, LED_BLUE, 0>>
      [] color = "WHITE"  -> <<0, 0, LED_WHITE>>
      [] OTHER            -> <<0, 0, 0>>

\* The if/elif chain of set_light: <<led_r_y, led_g_b, led_white>>.
ColorBytes(color) ==
    CASE color = "RED"    -> <<LED_RED, 0, 0>>
      [] color = "YELLOW" -> <<LED_YELLOW, 0, 0>>
      [] color = "GREEN"  -> <<0, LED_GREEN, 0>>
      [] color = "BLUE"   -> <<0, LED_BLUE, 0>>
      [] color = "PURPLE" -> <<LED_RED, LED_BLUE, 0>>
      [] color = "CYAN"   -> <<0, BitOr(LED_GREEN, LED_BLUE), 0>>
      [] color = "WHITE"  -> <<0, 0, LED_WHITE>>
      [] OTHER            -> <<0, 0, 0>>

\* set_light that switches the LEDs off for the pattern OFF.
ColorBytesOf(color, pattern) ==
    IF pattern = "OFF" THEN <<0, 0, 0>> ELSE ColorBytes(color)

\* The LED statements with = in place of |=.
LedBytesAssign(leds) ==
    LET r1 == IF "RED" \in leds THEN LED_RED ELSE 0
        r2 == IF "YELLOW" \in leds THEN LED_YELLOW ELSE r1
        g1 == IF "GREEN" \in leds THEN LED_GREEN ELSE 0
        g2 == IF "BLUE" \in leds THEN LED_BLUE ELSE g1
        w1 == IF "WHITE" \in leds THEN LED_WHITE ELSE 0
    IN  <<r2, g2, w1>>

\* The five "if LED.X in leds" statements of set_leds and set_all.
LedBytes(leds) ==
    LET r1 == IF "RED" \in leds THEN BitOr(0, LED_RED) ELSE 0
        r2 == IF "YELLOW" \in leds THEN BitOr(r1, LED_YELLOW) ELSE r1
        g1 == IF "GREEN" \in leds THEN BitOr(0, LED_GREEN) ELSE 0
        g2 == IF "BLUE" \in leds THEN BitOr(g1, LED_BLUE) ELSE g1
        w1 == IF "WHITE" \in leds THEN BitOr(0, LED_WHITE) ELSE 0
    IN  <<r2, g2, w1>>

\* BuildData with every field one byte early.
BuildDataShifted(mode, sound, led_r_y, led_g_b, led_white) ==
    <<0, 0, mode, sound, led_r_y, led_g_b, led_white, 0, 0>>

\* data = [0] * 9 followed by the assignments data[1] .. data[8].
BuildData(mode, sound, led_r_y, led_g_b, led_white) ==
    <<0, 0, 0, mode, sound, led_r_y, led_g_b, led_white, 0>>

LedOf(data) == <<data[6], data[7], data[8]>>
BuzzOf(data) == <<data[4], data[5]>>
Cache == <<current_led_r_y, current_led_g_b, current_led_white>>

----------------------------------------------------------------------------
(* Inputs *)

LedOps == {"set_light", "set_leds", "set_all", "reset"}
BuzzerOps == {"set_buzzer", "stop_buzzer"}
BuzzerWriters == BuzzerOps \union {"set_all"}
MutatingOps == LedOps \union BuzzerOps
Operations == {"connect", "disconnect"} \union MutatingOps

Threads == 1..NumThreads
WriteOutcomes == {"ok", "raise"}      \* device.write returns, or raises
ColorArgs == {"RED", "CYAN"}
LedArgs == {{}, {"YELLOW", "WHITE"}}
SoundArgs == {BUZZER_SOUND_OFF, BUZZER_SOUND_D7}
ModeArgs == {BUZZER_MODE_CONTINUOUS, BUZZER_MODE_COUNT_3}

----------------------------------------------------------------------------
(* The hid.device object *)

\* self.device.write(data): on None the attribute lookup raises and no write call
\* is made; a handle that is not open refuses the call by raising; an open handle
\* takes the report or raises (out).
Write(data, out) ==
    IF device = 0 THEN [called |-> FALSE, raised |-> TRUE, accepted |-> FALSE]
    ELSE IF handles[device] # "open"
         THEN [called |-> TRUE, raised |-> TRUE, accepted |-> FALSE]
         ELSE [called |-> TRUE, raised |-> (out = "raise"), accepted |-> (out = "ok")]

NoCall ==
    [op |-> "none", color |-> "OFF", pattern |-> "OFF", leds |-> {},
     sound |-> 0, mode |-> 0]

NoEv ==
    [op |-> "none", ret |-> "None", preConnected |-> FALSE, preLed |-> <<0, 0, 0>>,
     preDevice |-> 0, built |-> <<>>, written |-> <<>>, target |-> 0,
     raised |-> FALSE, opened |-> 0, closed |-> 0, nwrites |-> 0]

\* The record of an operation body: o returned ret.
Ev(o, ret) ==
    [NoEv EXCEPT !.op = o, !.ret = ret, !.preConnected = connected,
                 !.preLed = Cache, !.preDevice = device]

----------------------------------------------------------------------------
(* Operation bodies of PatliteController (the code under "with self.lock") *)

Fresh ==
    /\ device = 0
    /\ connected = FALSE
    /\ current_led_r_y = 0
    /\ current_led_g_b = 0
    /\ current_led_white = 0
    /\ lock = 0
    /\ handles = <<>>
    /\ closeCalls = <<>>
    /\ pc = [t \in Threads |-> "idle"]
    /\ op = [t \in Threads |-> "none"]
    /\ ev = NoEv
    /\ accLed = <<0, 0, 0>>
    /\ lastLed = [op |-> "none", led |-> <<0, 0, 0>>, was |-> <<0, 0, 0>>]
    /\ lastBuzz = <<0, 0>>
    /\ loop = [pc |-> "boot", call |-> "none", then |-> "none", interleaved |-> FALSE]
    /\ tasks = <<>>
    /\ called = [op |-> "none", connected |-> FALSE, checked |-> FALSE,
                 interleaved |-> FALSE]
    /\ jobs = <<>>
    /\ accepted = 0
    /\ wrote = [n |-> 0, prev |-> 0]

Init == Fresh /\ enc = NoCall

\* connect() without its try/except: the exception of open leaves the method.
ConnectNoTry(openOk) ==
    /\ Len(handles) < MaxHandles
    /\ LET h == Len(handles) + 1 IN
        /\ device' = h
        /\ handles' = Append(handles, IF openOk THEN "open" ELSE "unopened")
        /\ closeCalls' = Append(closeCalls, 0)
        /\ connected' = IF openOk THEN TRUE ELSE connected
        /\ ev' = [Ev("connect", IF openOk THEN "True" ELSE "Raise") EXCEPT
                    !.opened = h, !.raised = ~openOk]
    /\ UNCHANGED <<current_led_r_y, current_led_g_b, current_led_white, history>>

\* connect(): openOk is whether device.open returns (TRUE) or raises (FALSE).
Connect(openOk) ==
    /\ Len(handles) < MaxHandles
    /\ LET h == Len(handles) + 1 IN
        /\ device' = h
        /\ handles' = Append(handles, IF openOk THEN "open" ELSE "unopened")
        /\ closeCalls' = Append(closeCalls, 0)
        /\ connected' = IF openOk THEN TRUE ELSE connected
        /\ ev' = [Ev("connect", IF openOk THEN "True" ELSE "False") EXCEPT
                    !.opened = h, !.raised = ~openOk]
    /\ UNCHANGED <<current_led_r_y, current_led_g_b, current_led_white, history>>

\* disconnect() that closes the handle and forgets to clear the flag.
DisconnectKeepsFlag ==
    IF connected /\ device # 0
    THEN /\ handles' = [handles EXCEPT ![device] = IF @ = "open" THEN "closed" ELSE @]
         /\ closeCalls' = [closeCalls EXCEPT ![device] = @ + 1]
         /\ ev' = [Ev("disconnect", "None") EXCEPT !.closed = device]
         /\ UNCHANGED <<session, history>>
    ELSE /\ ev' = Ev("disconnect", "None")
         /\ UNCHANGED <<session, hid, history>>

\* disconnect()
Disconnect ==
    IF connected /\ device # 0
    THEN /\ handles' = [handles EXCEPT ![device] = IF @ = "open" THEN "closed" ELSE @]
         /\ closeCalls' = [closeCalls EXCEPT ![device] = @ + 1]
         /\ connected' = FALSE
         /\ ev' = [Ev("disconnect", "None") EXCEPT !.closed = device]
         /\ UNCHANGED <<device, current_led_r_y, current_led_g_b, current_led_white, history>>
    ELSE /\ ev' = Ev("disconnect", "None")
         /\ UNCHANGED <<session, hid, history>>

\* "if not self.connected: return False" of o
Refuse(o) ==
    /\ ev' = Ev(o, "False")
    /\ UNCHANGED <<session, hid, history>>

\* Emit that marks the session disconnected when the write raises.
EmitDisconnectsOnFailure(o, data, out) ==
    LET w == Write(data, out) IN
    /\ ev' = [Ev(o, IF w.raised THEN "False" ELSE "True") EXCEPT
                !.built = data,
                !.written = IF w.called THEN data ELSE <<>>,
                !.target = IF w.called THEN device ELSE 0,
                !.raised = w.raised,
                !.nwrites = IF w.called THEN 1 ELSE 0]
    /\ accLed' = IF w.accepted THEN LedOf(data) ELSE accLed
    /\ lastLed' = IF o \in LedOps THEN [op |-> o, led |-> LedOf(data), was |-> Cache]
                               ELSE lastLed
    /\ connected' = IF w.raised THEN FALSE ELSE connected
    /\ UNCHANGED <<device, hid>>

\* Emit that calls write a second time when the first call raises.
EmitRetries(o, data, out) ==
    LET w == Write(data, out) IN
    /\ ev' = [Ev(o, IF w.raised THEN "False" ELSE "True") EXCEPT
                !.built = data,
                !.written = IF w.called THEN data ELSE <<>>,
                !.target = IF w.called THEN device ELSE 0,
                !.raised = w.raised,
                !.nwrites = IF w.called THEN (IF w.raised THEN 2 ELSE 1) ELSE 0]
    /\ accLed' = IF w.accepted THEN LedOf(data) ELSE accLed
    /\ lastLed' = IF o \in LedOps THEN [op |-> o, led |-> LedOf(data), was |-> Cache]
                               ELSE lastLed
    /\ UNCHANGED <<device, connected, hid>>

\* self.device.write(data); return True / except Exception: return False, in o
Emit(o, data, out) ==
    LET w == Write(data, out) IN
    /\ ev' = [Ev(o, IF w.raised THEN "False" ELSE "True") EXCEPT
                !.built = data,
                !.written = IF w.called THEN data ELSE <<>>,
                !.target = IF w.called THEN device ELSE 0,
                !.raised = w.raised,
                !.nwrites = IF w.called THEN 1 ELSE 0]
    /\ accLed' = IF w.accepted THEN LedOf(data) ELSE accLed
    /\ lastLed' = IF o \in LedOps THEN [op |-> o, led |-> LedOf(data), was |-> Cache]
                               ELSE lastLed
    /\ UNCHANGED <<device, connected, hid>>

\* set_light that sends the buzzer bytes last written instead of zeros.
SetLightKeepsBuzzer(color, pattern, out) ==
    IF ~connected THEN Refuse("set_light")
    ELSE LET led == ColorBytes(color) IN
         /\ current_led_r_y' = led[1]
         /\ current_led_g_b' = led[2]
         /\ current_led_white' = led[3]
         /\ Emit("set_light", BuildData(lastBuzz[1], lastBuzz[2], led[1], led[2], led[3]), out)

\* set_light that consults its pattern argument.
SetLightByPattern(color, pattern, out) ==
    IF ~connected THEN Refuse("set_light")
    ELSE LET led == ColorBytesOf(color, pattern) IN
         /\ current_led_r_y' = led[1]
         /\ current_led_g_b' = led[2]
         /\ current_led_white' = led[3]
         /\ Emit("set_light", BuildData(0, 0, led[1], led[2], led[3]), out)

\* set_light(color, pattern)
SetLight(color, pattern, out) ==
    IF ~connected THEN Refuse("set_light")
    ELSE LET led == ColorBytes(color) IN
         /\ current_led_r_y' = led[1]
         /\ current_led_g_b' = led[2]
         /\ current_led_white' = led[3]
         /\ Emit("set_light", BuildData(0, 0, led[1], led[2], led[3]), out)

\* set_leds(leds)
SetLeds(leds, out) ==
    IF ~connected THEN Refuse("set_leds")
    ELSE LET led == LedBytes(leds) IN
         /\ current_led_r_y' = led[1]
         /\ current_led_g_b' = led[2]
         /\ current_led_white' = led[3]
         /\ Emit("set_leds", BuildData(0, 0, led[1], led[2], led[3]), out)

\* reset() that sends the all-off report and leaves the cache as it was.
ResetKeepsCache(out) ==
    /\ Emit("reset", BuildData(0, 0, 0, 0, 0), out)
    /\ UNCHANGED <<current_led_r_y, current_led_g_b, current_led_white>>

\* reset(): no connected test
Reset(out) ==
    /\ current_led_r_y' = 0
    /\ current_led_g_b' = 0
    /\ current_led_white' = 0
    /\ Emit("reset", BuildData(0, 0, 0, 0, 0), out)

\* set_buzzer that sends zero LED bytes, as set_light sends zero buzzer bytes.
SetBuzzerAsLedsOff(o, sound, mode, out) ==
    IF ~connected THEN Refuse(o)
    ELSE /\ Emit(o, BuildData(mode, sound, 0, 0, 0), out)
         /\ UNCHANGED <<current_led_r_y, current_led_g_b, current_led_white>>

\* set_buzzer(sound, mode), entered as o (set_buzzer itself, or through stop_buzzer)
SetBuzzerAs(o, sound, mode, out) ==
    IF ~connected THEN Refuse(o)
    ELSE /\ Emit(o, BuildData(mode, sound, current_led_r_y, current_led_g_b,
                              current_led_white), out)
         /\ UNCHANGED <<current_led_r_y, current_led_g_b, current_led_white>>

SetBuzzer(sound, mode, out) == SetBuzzerAs("set_buzzer", sound, mode, out)

\* stop_buzzer()
StopBuzzer(out) ==
    SetBuzzerAs("stop_buzzer", BUZZER_SOUND_OFF, BUZZER_MODE_CONTINUOUS, out)

\* set_all(leds, buzzer_sound, buzzer_mode)
SetAll(leds, buzzer_sound, buzzer_mode, out) ==
    IF ~connected THEN Refuse("set_all")
    ELSE LET led == LedBytes(leds) IN
         /\ current_led_r_y' = led[1]
         /\ current_led_g_b' = led[2]
         /\ current_led_white' = led[3]
         /\ Emit("set_all", BuildData(buzzer_mode, buzzer_sound, led[1], led[2], led[3]), out)

----------------------------------------------------------------------------
(* Spec: one caller at a time; each action is a whole call, from taking    *)
(* self.lock to releasing it.                                              *)

LockFree == lock = 0

CallConnect == \E openOk \in BOOLEAN :
    LockFree /\ Connect(openOk) /\ UNCHANGED <<threads, aside>>
CallDisconnect ==
    LockFree /\ Disconnect /\ UNCHANGED <<threads, aside>>
CallSetLight == \E color \in ColorArgs, pattern \in PatlitePattern, out \in WriteOutcomes :
    LockFree /\ SetLight(color, pattern, out) /\ UNCHANGED <<threads, aside>>
CallSetLeds == \E leds \in LedArgs, out \in WriteOutcomes :
    LockFree /\ SetLeds(leds, out) /\ UNCHANGED <<threads, aside>>
CallReset == \E out \in WriteOutcomes :
    LockFree /\ Reset(out) /\ UNCHANGED <<threads, aside>>
CallSetBuzzer == \E sound \in SoundArgs, mode \in ModeArgs, out \in WriteOutcomes :
    LockFree /\ SetBuzzer(sound, mode, out) /\ UNCHANGED <<threads, aside>>
CallStopBuzzer == \E out \in WriteOutcomes :
    LockFree /\ StopBuzzer(out) /\ UNCHANGED <<threads, aside>>
CallSetAll == \E leds \in LedArgs, sound \in SoundArgs, mode \in ModeArgs, out \in WriteOutcomes :
    LockFree /\ SetAll(leds, sound, mode, out) /\ UNCHANGED <<threads, aside>>

Next ==
    \/ CallConnect
    \/ CallDisconnect
    \/ CallSetLight
    \/ CallSetLeds
    \/ CallReset
    \/ CallSetBuzzer
    \/ CallStopBuzzer
    \/ CallSetAll

Spec == Init /\ [][Next]_vars

----------------------------------------------------------------------------
(* SpecConc: NumThreads callers. A caller invokes an operation and reaches *)
(* its "with self.lock" (Invoke), blocks there until the lock is free      *)
(* (Acquire), runs the operation body, and leaves the with block (Release).*)
(* Which operation a blocked caller invoked has no effect before it holds  *)
(* the lock, so op[t] is recorded when the lock is taken.                  *)

ConcColorArgs == {"RED"}
ConcLedArgs == {{"YELLOW", "WHITE"}}
ConcSoundArgs == {BUZZER_SOUND_D7}
ConcModeArgs == {BUZZER_MODE_COUNT_3}

\* thread t calls an operation (stop_buzzer calls set_buzzer without the lock)
Invoke(t) ==
    /\ pc[t] = "idle"
    /\ pc' = [pc EXCEPT ![t] = "wait"]
    /\ UNCHANGED <<lock, op, session, hid, ev, history, aside>>

\* An operation that enters its body without waiting for the lock.
AcquireNoWait(t, o) ==
    /\ pc[t] = "wait"
    /\ o = "connect" => Len(handles) < MaxHandles
    /\ lock' = t
    /\ pc' = [pc EXCEPT ![t] = "body"]
    /\ op' = [op EXCEPT ![t] = o]
    /\ UNCHANGED <<session, hid, ev, history, aside>>

\* with self.lock: __enter__ of operation o in thread t
Acquire(t, o) ==
    /\ pc[t] = "wait"
    /\ LockFree
    /\ o = "connect" => Len(handles) < MaxHandles
    /\ lock' = t
    /\ pc' = [pc EXCEPT ![t] = "body"]
    /\ op' = [op EXCEPT ![t] = o]
    /\ UNCHANGED <<session, hid, ev, history, aside>>

\* An operation that returns and leaves self.lock held.
ReleaseKeepsLock(t) ==
    /\ pc[t] = "release"
    /\ pc' = [pc EXCEPT ![t] = "idle"]
    /\ op' = [op EXCEPT ![t] = "none"]
    /\ UNCHANGED <<lock, session, hid, ev, history, aside>>

\* with self.lock: __exit__ (on return, and on the return in an except clause)
Release(t) ==
    /\ pc[t] = "release"
    /\ lock' = 0
    /\ pc' = [pc EXCEPT ![t] = "idle"]
    /\ op' = [op EXCEPT ![t] = "none"]
    /\ UNCHANGED <<session, hid, ev, history, aside>>

Running(t, o) == pc[t] = "body" /\ op[t] = o
Finish(t) == pc' = [pc EXCEPT ![t] = "release"] /\ UNCHANGED <<lock, op, aside>>

BodyConnect(t) == \E openOk \in BOOLEAN :
    Running(t, "connect") /\ Connect(openOk) /\ Finish(t)
BodyDisconnect(t) ==
    Running(t, "disconnect") /\ Disconnect /\ Finish(t)
BodySetLight(t) == \E color \in ConcColorArgs, pattern \in PatlitePattern, out \in WriteOutcomes :
    Running(t, "set_light") /\ SetLight(color, pattern, out) /\ Finish(t)
BodySetLeds(t) == \E leds \in ConcLedArgs, out \in WriteOutcomes :
    Running(t, "set_leds") /\ SetLeds(leds, out) /\ Finish(t)
BodyReset(t) == \E out \in WriteOutcomes :
    Running(t, "reset") /\ Reset(out) /\ Finish(t)
BodySetBuzzer(t) == \E sound \in ConcSoundArgs, mode \in ConcModeArgs, out \in WriteOutcomes :
    Running(t, "set_buzzer") /\ SetBuzzer(sound, mode, out) /\ Finish(t)
BodyStopBuzzer(t) == \E out \in WriteOutcomes :
    Running(t, "stop_buzzer") /\ StopBuzzer(out) /\ Finish(t)
BodySetAll(t) ==
    \E leds \in ConcLedArgs, sound \in ConcSoundArgs, mode \in ConcModeArgs, out \in WriteOutcomes :
    Running(t, "set_all") /\ SetAll(leds, sound, mode, out) /\ Finish(t)

NextConc ==
    \/ \E t \in Threads : Invoke(t)
    \/ \E t \in Threads, o \in Operations : Acquire(t, o)
    \/ \E t \in Threads : Release(t)
    \/ \E t \in Threads : BodyConnect(t)
    \/ \E t \in Threads : BodyDisconnect(t)
    \/ \E t \in Threads : BodySetLight(t)
    \/ \E t \in Threads : BodySetLeds(t)
    \/ \E t \in Threads : BodyReset(t)
    \/ \E t \in Threads : BodySetBuzzer(t)
    \/ \E t \in Threads : BodyStopBuzzer(t)
    \/ \E t \in Threads : BodySetAll(t)

SpecConc == Init /\ [][NextConc]_vars

\* SpecConcFair: every device call returns (a body that has started finishes and
\* its lock is released) and the lock is fair (a waiter that can take the lock
\* again and again takes it).
Proceed(t) ==
    \/ BodyConnect(t) \/ BodyDisconnect(t) \/ BodySetLight(t) \/ BodySetLeds(t)
    \/ BodyReset(t) \/ BodySetBuzzer(t) \/ BodyStopBuzzer(t) \/ BodySetAll(t)
    \/ Release(t)
Enter(t) == \E o \in Operations : Acquire(t, o)

SpecConcFair ==
    /\ Init /\ [][NextConc]_vars
    /\ \A t \in Threads : WF_vars(Proceed(t)) /\ SF_vars(Enter(t))

----------------------------------------------------------------------------
(* SpecEnc: one caller; the run draws one call (enc) with its arguments    *)
(* over their whole domain, connects, and makes that call and buzzer calls *)
(* in any order.                                                           *)

EncInputs ==
    {[NoCall EXCEPT !.op = "set_light", !.color = c, !.pattern = p] :
        c \in PatliteColor, p \in PatlitePattern}
    \union {[NoCall EXCEPT !.op = "set_leds", !.leds = s] : s \in SUBSET LED}
    \union {[NoCall EXCEPT !.op = "set_all", !.leds = s, !.sound = b[1], !.mode = b[2]] :
        s \in SUBSET LED, b \in SoundArgs \X ModeArgs}

InitEnc == Fresh /\ enc \in EncInputs

\* lastBuzz follows the report the call just made passed to device.write.
TrackBuzz ==
    lastBuzz' = IF ev'.op \in BuzzerWriters /\ ev'.written # <<>>
                THEN BuzzOf(ev'.written) ELSE lastBuzz

EncConnect == \E openOk \in BOOLEAN :
    LockFree /\ Connect(openOk) /\ UNCHANGED <<threads, aside>>
EncSetLight == \E out \in WriteOutcomes :
    /\ enc.op = "set_light"
    /\ LockFree /\ SetLight(enc.color, enc.pattern, out)
    /\ TrackBuzz /\ UNCHANGED <<threads, enc, web, queue>>
EncSetLeds == \E out \in WriteOutcomes :
    /\ enc.op = "set_leds"
    /\ LockFree /\ SetLeds(enc.leds, out)
    /\ TrackBuzz /\ UNCHANGED <<threads, enc, web, queue>>
EncSetAll == \E out \in WriteOutcomes :
    /\ enc.op = "set_all"
    /\ LockFree /\ SetAll(enc.leds, enc.sound, enc.mode, out)
    /\ TrackBuzz /\ UNCHANGED <<threads, enc, web, queue>>
EncSetBuzzer == \E out \in WriteOutcomes :
    /\ LockFree /\ SetBuzzer(BUZZER_SOUND_D7, BUZZER_MODE_COUNT_3, out)
    /\ TrackBuzz /\ UNCHANGED <<threads, enc, web, queue>>
EncStopBuzzer == \E out \in WriteOutcomes :
    /\ LockFree /\ StopBuzzer(out)
    /\ TrackBuzz /\ UNCHANGED <<threads, enc, web, queue>>
EncReset == \E out \in WriteOutcomes :
    /\ LockFree /\ Reset(out)
    /\ TrackBuzz /\ UNCHANGED <<threads, enc, web, queue>>

NextEnc ==
    \/ EncConnect
    \/ EncSetLight
    \/ EncSetLeds
    \/ EncSetAll
    \/ EncSetBuzzer
    \/ EncStopBuzzer
    \/ EncReset

SpecEnc == InitEnc /\ [][NextEnc]_vars

----------------------------------------------------------------------------
(* SpecHttp: main.py. The hooks and the handlers run one at a time on the  *)
(* event loop; a handler reads patlite.connected and then calls connect()  *)
(* or disconnect(), which waits for self.lock; the operations of the write *)
(* endpoints run later as background tasks on worker threads.              *)

MaxTasks == 1

Serving == [pc |-> "serve", call |-> "none", then |-> "none", interleaved |-> FALSE]
Down == [Serving EXCEPT !.pc = "down"]
Calling(o, then) == [pc |-> "call", call |-> o, then |-> then, interleaved |-> FALSE]

\* startup(): if not patlite.connected: patlite.connect()
HttpStartup ==
    /\ loop.pc = "boot"
    /\ loop' = IF ~connected THEN Calling("connect", "serve") ELSE Serving
    /\ UNCHANGED <<session, hid, threads, ev, history, lastBuzz, enc, tasks, called, queue>>

\* shutdown(), once the requests and their background tasks are over:
\* if patlite.connected: patlite.disconnect()
HttpShutdown ==
    /\ loop.pc = "serve"
    /\ tasks = <<>>
    /\ loop' = IF connected THEN Calling("disconnect", "down") ELSE Down
    /\ UNCHANGED <<session, hid, threads, ev, history, lastBuzz, enc, tasks, called, queue>>

\* A /connect or /disconnect handler that makes its call whatever connected is.
HttpSessionUnchecked(o) ==
    /\ loop.pc = "serve"
    /\ o = "connect" => Len(handles) < MaxHandles
    /\ loop' = Calling(o, "serve")
    /\ UNCHANGED <<session, hid, threads, ev, history, lastBuzz, enc, tasks, called, queue>>

\* connect_device() (o = "connect") and disconnect_device() (o = "disconnect") up
\* to the call: the session already in the state asked for is answered at once.
HttpSession(o) ==
    /\ loop.pc = "serve"
    /\ o = "connect" => Len(handles) < MaxHandles
    /\ loop' = IF connected = (o = "connect") THEN Serving ELSE Calling(o, "serve")
    /\ UNCHANGED <<session, hid, threads, ev, history, lastBuzz, enc, tasks, called, queue>>

\* patlite.connect() / patlite.disconnect() of the hook or handler, once it has
\* self.lock, and the end of the handler.
Called == [op |-> loop.call, connected |-> connected,
           checked |-> (loop.call = "disconnect"), interleaved |-> loop.interleaved]
HttpCallConnect == \E openOk \in BOOLEAN :
    /\ loop.pc = "call" /\ loop.call = "connect"
    /\ LockFree /\ Connect(openOk)
    /\ called' = Called
    /\ loop' = [Serving EXCEPT !.pc = loop.then]
    /\ UNCHANGED <<threads, lastBuzz, enc, tasks, queue>>
HttpCallDisconnect ==
    /\ loop.pc = "call" /\ loop.call = "disconnect"
    /\ LockFree /\ Disconnect
    /\ called' = Called
    /\ loop' = [Serving EXCEPT !.pc = loop.then]
    /\ UNCHANGED <<threads, lastBuzz, enc, tasks, queue>>

\* A write endpoint (/light, /leds, /buzzer, /buzzer/stop, /all, /reset and the
\* shortcuts): 400 when not connected, else add_task(...) and success=True.
HttpWrite(o) ==
    /\ loop.pc = "serve"
    /\ IF ~connected THEN UNCHANGED tasks
       ELSE /\ Len(tasks) < MaxTasks
            /\ tasks' = Append(tasks, o)
    /\ UNCHANGED <<session, hid, threads, ev, history, lastBuzz, enc, loop, called, queue>>

\* The background tasks handed to worker threads are the first NumThreads of
\* tasks; whichever of them gets self.lock runs next.
InFlight == 1..(IF Len(tasks) < NumThreads THEN Len(tasks) ELSE NumThreads)
Without(q, i) == [j \in 1..(Len(q) - 1) |-> IF j < i THEN q[j] ELSE q[j + 1]]

\* sync_patlite_operation(operation_func, ...): the result is dropped.
TaskDone(i) ==
    /\ tasks' = Without(tasks, i)
    /\ loop' = IF loop.pc = "call" THEN [loop EXCEPT !.interleaved = TRUE] ELSE loop
    /\ UNCHANGED <<threads, lastBuzz, enc, called, queue>>
Task(i, o) == i \in InFlight /\ tasks[i] = o /\ LockFree

TaskSetLight(i) == \E color \in ConcColorArgs, pattern \in PatlitePattern, out \in WriteOutcomes :
    Task(i, "set_light") /\ SetLight(color, pattern, out) /\ TaskDone(i)
TaskSetLeds(i) == \E leds \in ConcLedArgs, out \in WriteOutcomes :
    Task(i, "set_leds") /\ SetLeds(leds, out) /\ TaskDone(i)
TaskReset(i) == \E out \in WriteOutcomes :
    Task(i, "reset") /\ Reset(out) /\ TaskDone(i)
TaskSetBuzzer(i) == \E sound \in ConcSoundArgs, mode \in ConcModeArgs, out \in WriteOutcomes :
    Task(i, "set_buzzer") /\ SetBuzzer(sound, mode, out) /\ TaskDone(i)
TaskStopBuzzer(i) == \E out \in WriteOutcomes :
    Task(i, "stop_buzzer") /\ StopBuzzer(out) /\ TaskDone(i)
TaskSetAll(i) ==
    \E leds \in ConcLedArgs, sound \in ConcSoundArgs, mode \in ConcModeArgs, out \in WriteOutcomes :
    Task(i, "set_all") /\ SetAll(leds, sound, mode, out) /\ TaskDone(i)

NextHttp ==
    \/ HttpStartup
    \/ HttpShutdown
    \/ \E o \in {"connect", "disconnect"} : HttpSession(o)
    \/ HttpCallConnect
    \/ HttpCallDisconnect
    \/ \E o \in MutatingOps : HttpWrite(o)
    \/ \E i \in 1..MaxTasks : TaskSetLight(i)
    \/ \E i \in 1..MaxTasks : TaskSetLeds(i)
    \/ \E i \in 1..MaxTasks : TaskReset(i)
    \/ \E i \in 1..MaxTasks : TaskSetBuzzer(i)
    \/ \E i \in 1..MaxTasks : TaskStopBuzzer(i)
    \/ \E i \in 1..MaxTasks : TaskSetAll(i)

SpecHttp == Init /\ [][NextHttp]_vars

----------------------------------------------------------------------------
(* SpecTasks: the write path of main.py after startup. Each accepted write *)
(* request adds a background task that holds the arguments of the request; *)
(* the tasks run on worker threads and take self.lock in any order.        *)

MaxAccepts == 2

HttpLedArgs == {{}, {"RED"}}          \* turn_off_LED, turn_on_red, /leds
\* <<sound, mode>> of a BuzzerRequest, SimpleBuzzerRequest or AllSettingsRequest:
\* any int passes the model class
HttpBuzzerArgs ==
    {<<BUZZER_SOUND_D7, BUZZER_MODE_COUNT_3>>, <<16, BUZZER_MODE_COUNT_3>>,
     <<BUZZER_SOUND_D7, 16>>}

\* if not patlite.connected: raise HTTPException(400); else
\* background_tasks.add_task(sync_patlite_operation, patlite.<o>, ...) and
\* success=True
AddTask(o, leds, sound, mode) ==
    /\ IF ~connected THEN UNCHANGED <<jobs, accepted>>
       ELSE /\ accepted < MaxAccepts
            /\ accepted' = accepted + 1
            /\ jobs' = Append(jobs, [n |-> accepted + 1, op |-> o, leds |-> leds,
                                     sound |-> sound, mode |-> mode])
    /\ UNCHANGED <<session, hid, threads, ev, history, lastBuzz, enc, web, wrote>>

\* /leds, /turn_on_red, /turn_on_yellow, /turn_on_green, /turn_off_LED
AcceptLeds == \E leds \in HttpLedArgs :
    loop.pc = "serve" /\ AddTask("set_leds", leds, 0, 0)
\* /buzzer, /play_buzzer
AcceptBuzzer == \E b \in HttpBuzzerArgs :
    loop.pc = "serve" /\ AddTask("set_buzzer", {}, b[1], b[2])
\* /all
AcceptAll == \E leds \in HttpLedArgs, b \in HttpBuzzerArgs :
    loop.pc = "serve" /\ AddTask("set_all", leds, b[1], b[2])

JobsInFlight == 1..(IF Len(jobs) < NumThreads THEN Len(jobs) ELSE NumThreads)
Job(i, o) == i \in JobsInFlight /\ jobs[i].op = o /\ LockFree

\* sync_patlite_operation(operation_func, *args): the result is dropped.
JobDone(i) ==
    /\ jobs' = Without(jobs, i)
    /\ wrote' = IF ev'.nwrites = 1 THEN [n |-> jobs[i].n, prev |-> wrote.n] ELSE wrote
    /\ UNCHANGED <<threads, lastBuzz, enc, web, accepted>>

RunSetLeds(i) == \E out \in WriteOutcomes :
    Job(i, "set_leds") /\ SetLeds(jobs[i].leds, out) /\ JobDone(i)
RunSetBuzzer(i) == \E out \in WriteOutcomes :
    Job(i, "set_buzzer") /\ SetBuzzer(jobs[i].sound, jobs[i].mode, out) /\ JobDone(i)
RunSetAll(i) == \E out \in WriteOutcomes :
    /\ Job(i, "set_all")
    /\ SetAll(jobs[i].leds, jobs[i].sound, jobs[i].mode, out)
    /\ JobDone(i)

NextTasks ==
    \/ HttpStartup
    \/ HttpCallConnect
    \/ AcceptLeds
    \/ AcceptBuzzer
    \/ AcceptAll
    \/ \E i \in 1..MaxAccepts : RunSetLeds(i)
    \/ \E i \in 1..MaxAccepts : RunSetBuzzer(i)
    \/ \E i \in 1..MaxAccepts : RunSetAll(i)

SpecTasks == Init /\ [][NextTasks]_vars

----------------------------------------------------------------------------
(* Claims *)

Zero3 == <<0, 0, 0>>
Zero9 == <<0, 0, 0, 0, 0, 0, 0, 0, 0>>
WroteReport == ev.written # <<>>

\* C1: a mutating operation (set_light, set_leds, set_buzzer, stop_buzzer, set_all,
\* reset) invoked while connected = False returns False and makes no write call on
\* any device handle.
C1_DisconnectedRefused ==
    (ev.op \in MutatingOps /\ ~ev.preConnected) => (ev.ret = "False" /\ ~WroteReport)

\* C2: at most one caller is between acquiring and releasing self.lock, and that
\* caller is the one the lock records.
InsideLock(t) == pc[t] \in {"body", "release"}
C2_MutualExclusion ==
    /\ \A t1, t2 \in Threads : (InsideLock(t1) /\ InsideLock(t2)) => t1 = t2
    /\ \A t \in Threads : InsideLock(t) => lock = t

\* C2 witness: one caller is inside an operation body while another is blocked at
\* the lock.
C2_Witness ==
    \E t1, t2 \in Threads : t1 # t2 /\ pc[t1] = "body" /\ pc[t2] = "wait"

\* C3: set_buzzer or stop_buzzer on a Connected session passes a report whose bytes
\* 5..7 are the cached LED triple as it was before the call, leaves the cache
\* unchanged, and so sends the LED bytes of the most recent set_light / set_leds /
\* set_all / reset report.
C3_BuzzerPreservesLeds ==
    (ev.op \in BuzzerOps /\ ev.preConnected) =>
        /\ WroteReport
        /\ LedOf(ev.written) = ev.preLed
        /\ Cache = ev.preLed
        /\ LedOf(ev.written) = lastLed.led

\* C3 witness: set_light(RED, ON) then set_buzzer(0x06, 0x03) has sent
\* [0,0,0,0x03,0x06,0x10,0,0,0].
C3_Witness ==
    /\ ev.op = "set_buzzer"
    /\ lastLed.op = "set_light"
    /\ ev.written = <<0, 0, 0, 3, 6, 16, 0, 0, 0>>

\* C4: reset() on a Connected session passes the all-zero report and sets the cache
\* to (0,0,0); a buzzer write whose most recent LED-setting operation is reset sends
\* LED bytes (0,0,0).
C4_ResetClearsCache ==
    /\ (ev.op = "reset" /\ ev.preConnected) => (ev.written = Zero9 /\ Cache = Zero3)
    /\ (ev.op \in BuzzerOps /\ WroteReport /\ lastLed.op = "reset") =>
            LedOf(ev.written) = Zero3

\* C4 witness: a buzzer report was sent after a reset that found LEDs cached.
C4_Witness ==
    /\ ev.op = "set_buzzer"
    /\ WroteReport
    /\ lastLed.op = "reset"
    /\ lastLed.was # Zero3

\* C5: a connect() whose open raises returns False and leaves connected = False,
\* whatever the state before the call.
C5_FailedConnectDisconnects ==
    (ev.op = "connect" /\ ev.raised) => (ev.ret = "False" /\ ~connected)

\* C6: at most one device handle is open, every opened handle that is still open is
\* the one the session holds, and no handle has had close called on it twice.
C6_HandlesClosedOnce ==
    /\ Cardinality({h \in DOMAIN handles : handles[h] = "open"}) <= 1
    /\ \A h \in DOMAIN handles :
            /\ handles[h] = "open" => h = device
            /\ closeCalls[h] <= 1

\* C7: disconnect() on a Connected session calls close on the stored handle, once,
\* and leaves connected = False; on a Disconnected session it changes nothing and
\* calls close on no handle; a disconnect() that follows a disconnect() changes
\* nothing.
C7_Disconnect ==
    [][ev'.op = "disconnect" =>
        /\ IF connected
             THEN /\ device # 0
                  /\ ev'.closed = device
                  /\ closeCalls' = [closeCalls EXCEPT ![device] = @ + 1]
                  /\ handles'[device] # "open"
                  /\ \A h \in DOMAIN handles : h # device => handles'[h] = handles[h]
                  /\ device' = device
                  /\ ~connected'
             ELSE /\ ev'.closed = 0
                  /\ UNCHANGED <<session, hid>>
        /\ ev.op = "disconnect" => UNCHANGED <<session, hid>>]_vars

\* C7 witness: disconnect() ran on a Disconnected session whose handle an earlier
\* disconnect() had closed.
C7_Witness ==
    /\ ev.op = "disconnect"
    /\ ~ev.preConnected
    /\ ev.preDevice # 0
    /\ closeCalls[ev.preDevice] = 1
    /\ handles[ev.preDevice] = "closed"

\* C8: the cached LED triple equals the LED bytes of the most recent write a device
\* accepted ((0,0,0) before any); an operation whose write raised or was never
\* attempted leaves the cache as it was.
C8_CacheIsLastAccepted ==
    /\ Cache = accLed
    /\ (ev.op \in MutatingOps /\ (~WroteReport \/ ev.raised)) => Cache = ev.preLed

\* C9: every report passed to device.write has 9 elements, bytes 0, 1, 2 and 8 zero,
\* bytes 5 and 6 in {0x00, 0x01, 0x10, 0x11} and byte 7 in {0x00, 0x10}; so has the
\* report built from any color and from any LED set.
LedLayout(data) ==
    /\ Len(data) = 9
    /\ data[1] = 0 /\ data[2] = 0 /\ data[3] = 0 /\ data[9] = 0
    /\ data[6] \in {0, 1, 16, 17}
    /\ data[7] \in {0, 1, 16, 17}
    /\ data[8] \in {0, 16}
C9_ReportLayout ==
    /\ WroteReport => LedLayout(ev.written)
    /\ \A c \in PatliteColor :
            LedLayout(BuildData(0, 0, ColorBytes(c)[1], ColorBytes(c)[2], ColorBytes(c)[3]))
    /\ \A s \in SUBSET LED :
            LedLayout(BuildData(0, 0, LedBytes(s)[1], LedBytes(s)[2], LedBytes(s)[3]))

\* C9 witness: a buzzer report carrying 0x11 in byte 6 was passed to device.write.
C9_Witness ==
    /\ ev.op = "set_buzzer"
    /\ WroteReport
    /\ ev.written[7] = 17
    /\ ev.written[4] = 3

\* C10: when device.write raises inside set_light, set_leds, set_buzzer, set_all or
\* reset, the operation returns False and connected keeps the value it had.
C10_WriteFailureKeepsConnected ==
    (ev.op \in MutatingOps /\ WroteReport /\ ev.raised) =>
        (ev.ret = "False" /\ connected = ev.preConnected)

\* C10 witness: a write on the open handle of a Connected session raised.
C10_Witness ==
    /\ ev.op \in MutatingOps
    /\ WroteReport
    /\ ev.raised
    /\ ev.preConnected
    /\ handles[ev.target] = "open"
    /\ connected

\* A mutating operation on a Connected session makes exactly one device.write
\* call, whether the call returns or raises.
OneWritePerCall ==
    (ev.op \in MutatingOps /\ ev.preConnected) => ev.nwrites = 1

\* C11: each call of set_light, set_leds, set_buzzer, stop_buzzer, set_all or reset
\* on a Connected session makes exactly one device.write call, whether that write
\* returns or raises; the one buffer of set_all(leds, sound, mode) carries both the
\* LED bytes of leds and the buzzer mode and sound it was given.
C11_SingleWrite ==
    /\ OneWritePerCall
    /\ (ev.op = "set_all" /\ ev.preConnected) =>
            /\ WroteReport
            /\ LedOf(ev.written) = LedBytes(enc.leds)
            /\ BuzzOf(ev.written) = <<enc.mode, enc.sound>>
C11_Witness ==
    /\ ev.op = "set_all" /\ ev.preConnected /\ ev.raised /\ ev.nwrites = 1
    /\ enc.leds = {"RED", "BLUE"}
    /\ enc.sound = BUZZER_SOUND_D7 /\ enc.mode = BUZZER_MODE_COUNT_3
    /\ ev.written = <<0, 0, 0, 3, 6, 16, 1, 0, 0>>

\* C12: no operation lets an exception leave it: a failed open, a call on a session
\* that is not connected (self.device None, unopened or closed) and a write that
\* raises all end in a normal return, with False from every operation but
\* disconnect (which returns None).
C12_NoExceptionEscapes ==
    /\ ev.ret # "Raise"
    /\ ev.op = "disconnect" => ev.ret = "None"
    /\ (ev.op = "connect" /\ ev.raised) => ev.ret = "False"
    /\ (ev.op \in MutatingOps /\ ~ev.preConnected) => ev.ret = "False"
    /\ (ev.op \in MutatingOps /\ ev.raised) => ev.ret = "False"

\* C12 witness: connect() failed, then reset() on the Disconnected session called
\* write on the unopened handle and returned False.
C12_Witness ==
    /\ ev.op = "reset"
    /\ ~ev.preConnected
    /\ ev.preDevice # 0
    /\ handles[ev.preDevice] = "unopened"
    /\ ev.raised
    /\ ev.ret = "False"

C18_ConnectedHandleOpen ==
    connected => (device # 0 /\ handles[device] = "open")

\* C13: every operation releases self.lock on every way out (return, refusal of a
\* disconnected session, caught exception), and none takes the lock while holding
\* it; so, when every device call returns and the lock is fair, a caller that has
\* invoked an operation always comes to complete it.
C13_EveryCallCompletes ==
    /\ [](\A t \in Threads : pc[t] \in {"idle", "wait"} => lock # t)
    /\ [](lock # 0 => InsideLock(lock))
    /\ \A t \in Threads : (pc[t] = "wait") ~> (pc[t] = "idle")
C13_Witness ==
    \E t1, t2 \in Threads :
        /\ pc[t1] = "wait"
        /\ pc[t2] = "release" /\ lock = t2
        /\ ev.op \in MutatingOps /\ ev.raised

\* C14: for every color C, set_light(C, ON) on a Connected session writes a report
\* whose bytes 5, 6, 7 are: OFF (0,0,0), RED (0x10,0,0), YELLOW (0x01,0,0),
\* GREEN (0,0x10,0), BLUE (0,0x01,0), PURPLE (0x10,0x01,0), CYAN (0,0x11,0),
\* WHITE (0,0,0x10).
ColorTable ==
    [c \in PatliteColor |->
        CASE c = "OFF"    -> <<0, 0, 0>>
          [] c = "RED"    -> <<16, 0, 0>>
          [] c = "YELLOW" -> <<1, 0, 0>>
          [] c = "GREEN"  -> <<0, 16, 0>>
          [] c = "BLUE"   -> <<0, 1, 0>>
          [] c = "PURPLE" -> <<16, 1, 0>>
          [] c = "CYAN"   -> <<0, 17, 0>>
          [] c = "WHITE"  -> <<0, 0, 16>>]
C14_ColorTable ==
    (ev.op = "set_light" /\ enc.pattern = "ON" /\ ev.preConnected) =>
        (WroteReport /\ LedOf(ev.written) = ColorTable[enc.color])
C14_Witness ==
    /\ ev.op = "set_light" /\ enc.pattern = "ON" /\ enc.color = "CYAN"
    /\ ev.preConnected /\ ~ev.raised
    /\ LedOf(ev.written) = <<0, 17, 0>>

\* C15: for every subset S of the five LED flags, the LED bytes written by
\* set_leds(S) and by set_all(S, sound, mode) are the byte-wise OR of the bytes of
\* each single flag of S, (0,0,0) for the empty set; and the bytes of a union of two
\* flag sets are the byte-wise OR of the bytes of the two sets.
Or3(a, b) == <<BitOr(a[1], b[1]), BitOr(a[2], b[2]), BitOr(a[3], b[3])>>
RECURSIVE OrOfFlags(_)
OrOfFlags(s) ==
    IF s = {} THEN Zero3
    ELSE LET f == CHOOSE x \in s : TRUE
         IN  Or3(LedBytes({f}), OrOfFlags(s \ {f}))
C15_LedSetIsOrOfFlags ==
    (ev.op \in {"set_leds", "set_all"} /\ WroteReport) =>
        /\ LedOf(ev.written) = OrOfFlags(enc.leds)
        /\ \A s1, s2 \in SUBSET enc.leds :
                LedBytes(s1 \union s2) = Or3(LedBytes(s1), LedBytes(s2))
C15_Witness ==
    /\ ev.op = "set_leds" /\ WroteReport /\ ~ev.raised
    /\ enc.leds = {"RED", "YELLOW", "BLUE", "WHITE"}
    /\ LedOf(ev.written) = <<17, 1, 16>>

\* C17: for every color C and any two patterns P1, P2, a set_light(C, P1) step is
\* also a set_light(C, P2) step: from the same session state both write the same
\* buffer and leave the same session state.
C17_PatternIgnored ==
    [][\A p2 \in PatlitePattern, out \in WriteOutcomes :
         (enc.op = "set_light" /\ SetLight(enc.color, enc.pattern, out))
            => SetLight(enc.color, p2, out)]_vars
C17_Witness ==
    /\ ev.op = "set_light" /\ enc.pattern = "OFF" /\ enc.color = "GREEN"
    /\ WroteReport /\ ~ev.raised
    /\ LedOf(ev.written) = <<0, 16, 0>>
    /\ Cache = <<0, 16, 0>>

C20_ScheduledOpSucceeds ==
    ev.op \in MutatingOps => (ev.preConnected /\ ev.ret = "True")

\* C21: when the HTTP layer accepts write request A before write request B, the
\* device write of A's background task happens before that of B's: the tasks call
\* device.write in the order their requests were accepted.
C21_WritesInAcceptOrder ==
    wrote.n # 0 => wrote.prev < wrote.n

\* C22: every report that reaches device.write through /buzzer, /play_buzzer or
\* /all has byte 3 (buzzer mode) and byte 4 (buzzer sound) in 0..15: a request
\* with an out-of-range sound or mode causes no device write.
C22_BuzzerBytesInRange ==
    (ev.op \in {"set_buzzer", "set_all"} /\ WroteReport) =>
        (ev.written[4] \in 0..15 /\ ev.written[5] \in 0..15)

====
